---- MODULE Spec2Model ----
(***************************************************************************)
(* k6-performance-observatory: the reporter (history store, run            *)
(* comparison, alert severity), the SLA validator, the metric extractor,   *)
(* the Prometheus query with its retries, and the orchestrator that runs   *)
(* k6 and drives the stages of one run.                                    *)
(*                                                                         *)
(* Values.  A JavaScript value is a tagged pair [t, v]: t = "num" is a     *)
(* number of v thousandths, "nan" is NaN, "undef" is undefined (a missing  *)
(* property); t = "str" is the decimal string of v hundredths, as          *)
(* toFixed(2) writes it, "strnan" the string "NaN", "na" the string "N/A". *)
(***************************************************************************)
EXTENDS Integers, Sequences, FiniteSets, TLC

\* the reporter: history.json, the clock, and per process the position in
\* generateReport, its arguments and its locals
VARIABLES file, clock, pc, results, meta, seen, hist, entry, writeOutcome,
          raised, reports, comparisons, severity, runs, base, order, racing

\* the validator: the arguments of validateAgainstSLA, its local performanceSla,
\* what it returns, and what the call before it returned
VARIABLES vpc, k6Metrics, infraMetrics, runProfile, slaConfig, performanceSla,
          validationResults, previousResults

\* the extractor: the argument of extractK6Metrics, the MetricSet it returns
\* and whether it returned or raised
VARIABLES xpc, summary, metrics

\* queryPrometheusRange: its position, the maxRetries argument, the loop
\* variable, the outcomes of the requests issued so far, the sleeps taken
\* (attempt and milliseconds) and what it returned
VARIABLES qpc, maxRetries, attempt, outcomes, sleeps, queryResult

\* the orchestrator: its position in runPerformanceValidation, the CLI
\* options, the environment (k6 installed, Grafana configured and reachable,
\* slaConfig.alerts), the dashboard annotation, the k6 child process's events
\* not yet delivered and delivered, whether k6 was spawned, what
\* runK6LoadTest resolved to, k6-summary.json, the severity sent with the
\* notification and the exit of the process
VARIABLES opc, options, env, annotation, events, delivered, k6Started, k6Ran,
          summaryFile, notified, exit

reporterVars == <<file, clock, pc, results, meta, seen, hist, entry, writeOutcome,
                  raised, reports, comparisons, severity, runs, base, order, racing>>
validatorVars == <<vpc, k6Metrics, infraMetrics, runProfile, slaConfig,
                   performanceSla, validationResults, previousResults>>
extractorVars == <<xpc, summary, metrics>>
queryVars == <<qpc, maxRetries, attempt, outcomes, sleeps, queryResult>>
orchestratorVars == <<opc, options, env, annotation, events, delivered, k6Started,
                      k6Ran, summaryFile, notified, exit>>
vars == <<reporterVars, validatorVars, extractorVars, queryVars, orchestratorVars>>
nonReporterVars == <<validatorVars, extractorVars, queryVars, orchestratorVars>>
nonValidatorVars == <<reporterVars, extractorVars, queryVars, orchestratorVars>>
nonExtractorVars == <<reporterVars, validatorVars, queryVars, orchestratorVars>>
nonQueryVars == <<reporterVars, validatorVars, extractorVars, orchestratorVars>>

\* ---------------------------------------------------------------- bounds
MaxRuns == 3      \* generateReport calls of the sequential process
MaxTicks == 1     \* clock advances observed during the runs
Slack == 1        \* initial histories: 0..Slack and HistoryLimit-Slack..HistoryLimit records
MaxAttempts == 4  \* largest maxRetries given to queryPrometheusRange

\* ------------------------------------------------------- program constants
HistoryLimit == 50
DefaultCriticalP95 == 2000
DefaultCriticalErr == 10
DefaultWarningP95 == 800
DefaultWarningErr == 3
DefaultP50 == 200
DefaultP90 == 400
DefaultP99 == 1000
RetryDelay == 1000

Unit == 10 * 10 * 10        \* thousandths: resolution of the numbers
Procs == {1, 2}

\* ------------------------------------------------------------ JS values
Num(n) == [t |-> "num", v |-> n]
NaN == [t |-> "nan", v |-> 0]
Undef == [t |-> "undef", v |-> 0]
IsNum(x) == x.t = "num"

Undefined == "<undefined>"  \* a string-valued property that is not set
Absent == "<absent>"        \* a key JSON.stringify left out of the text

\* a > b and a <= b of JavaScript: false when an operand is NaN or undefined
JsGt(a, b) == IsNum(a) /\ IsNum(b) /\ a.v > b.v
JsLe(a, b) == IsNum(a) /\ IsNum(b) /\ a.v <= b.v
JsGe(a, b) == IsNum(a) /\ IsNum(b) /\ a.v >= b.v
\* x || d: d when x is undefined, NaN or 0
JsOr(x, d) == IF IsNum(x) /\ x.v # 0 THEN x ELSE d
Truthy(x) == IsNum(x) /\ x.v # 0

Abs(n) == IF n < 0 THEN -n ELSE n
Min(a, b) == IF a < b THEN a ELSE b

\* n / m rounded to the nearest integer, halves away from zero (m # 0)
RoundDiv(n, m) ==
    LET q == (2 * Abs(n) + Abs(m)) \div (2 * Abs(m))
    IN IF (n < 0) = (m < 0) THEN q ELSE -q

Str(h) == [t |-> "str", v |-> h]
NaNStr == [t |-> "strnan", v |-> 0]
NA == [t |-> "na", v |-> 0]

\* x.toFixed(2): the string of x rounded to hundredths
ToFixed2(x) == IF IsNum(x) THEN Str(RoundDiv(x.v, 10)) ELSE NaNStr

\* parseFloat(s): the number a decimal string holds, NaN for anything else
ParseFloat(s) == IF s.t = "str" THEN Num(s.v * 10) ELSE NaN

\* ------------------------------------------------------ validation results
MetricNames == <<"P50 Response Time (ms)", "P90 Response Time (ms)",
                 "P95 Response Time (ms)", "P99 Response Time (ms)",
                 "Error Rate (%)", "Throughput (req/s)",
                 "CPU Usage (%)", "Memory Usage (%)">>

VR(metric, actual, op, bound, passed) ==
    [metric |-> metric, actual |-> actual,
     threshold |-> [op |-> op, bound |-> bound], passed |-> passed]

Passed(r) == r.passed
Failed(r) == ~r.passed

\* ----------------------------------------------------------- history store
\* history.json: missing, unreadable (readFileSync throws), garbage (text that
\* JSON.parse rejects), nonlist (JSON that is no array) or a list of records.
FileOf(kind, val) == [kind |-> kind, val |-> val]
CorruptKinds == {"missing", "unreadable", "garbage", "nonlist"}

\* entry.metrics: one key per metric in first-insertion order, last value wins
RECURSIVE MetricsOf(_)
MetricsOf(rs) ==
    IF rs = <<>> THEN <<>>
    ELSE LET init == MetricsOf(SubSeq(rs, 1, Len(rs) - 1))
             r == rs[Len(rs)]
             m == [metric |-> r.metric, actual |-> r.actual,
                   threshold |-> r.threshold, passed |-> r.passed]
             at == {i \in 1..Len(init) : init[i].metric = r.metric}
         IN IF at = {} THEN Append(init, m)
            ELSE [i \in 1..Len(init) |-> IF i \in at THEN m ELSE init[i]]

\* the `entry` object of saveToHistory; Date.now() and new Date() are read in
\* the same synchronous step, both as `now`
MakeEntry(rs, md, now) ==
    [id |-> now,
     timestamp |-> now,
     profile |-> IF md.profile \in {Undefined, ""} THEN "default" ELSE md.profile,
     targetUrl |-> md.targetUrl,
     duration |-> md.duration,
     metrics |-> MetricsOf(rs),
     passed |-> Len(SelectSeq(rs, Passed)),
     failed |-> Len(SelectSeq(rs, Failed))]

\* history.slice(-50) when history.length > 50
TrimOffByOne(h) ==
    IF Len(h) > HistoryLimit + 1 THEN SubSeq(h, Len(h) - HistoryLimit, Len(h)) ELSE h
TrimKeepsOldest(h) ==
    IF Len(h) > HistoryLimit THEN SubSeq(h, 1, HistoryLimit) ELSE h
Trim(h) ==
    IF Len(h) > HistoryLimit THEN SubSeq(h, Len(h) - HistoryLimit + 1, Len(h)) ELSE h

\* JSON.stringify(history): a key whose value is undefined is left out
JsonRecord(r) ==
    [r EXCEPT !.targetUrl = IF @ = Undefined THEN Absent ELSE @,
              !.duration = IF @ = Undefined THEN Absent ELSE @]
StringifyBeforePush(h) ==
    FileOf("list", [i \in 1..(Len(h) - 1) |-> JsonRecord(h[i])])
Stringify(h) == FileOf("list", [i \in 1..Len(h) |-> JsonRecord(h[i])])

\* try { JSON.parse(readFileSync) } catch { [] }: the in-memory `history`
ReadHistory(f) ==
    CASE f.kind = "list" -> [t |-> "list", val |-> f.val]
      [] f.kind = "nonlist" -> [t |-> "nonlist", val |-> <<>>]
      [] OTHER -> [t |-> "list", val |-> <<>>]

\* ------------------------------------------------------- run comparison
\* key.includes('Throughput'), over the metric names of MetricNames
KeyIncludesThroughput(key) == key = MetricNames[6]

\* obj[key] of an ordered key/value list: the index of the key, 0 if not set
IndexOfKey(ms, key) ==
    LET at == {i \in 1..Len(ms) : ms[i].metric = key}
    IN IF at = {} THEN 0 ELSE CHOOSE i \in at : TRUE

\* ((currVal - prevVal) / prevVal * 100).toFixed(1): the string, in tenths
Delta(currVal, prevVal) == RoundDiv((currVal - prevVal) * 100 * 10, prevVal)

IsImprovedNoInversion(key, currVal, prevVal) == currVal < prevVal
IsImproved(key, currVal, prevVal) ==
    IF KeyIncludesThroughput(key) THEN currVal > prevVal ELSE currVal < prevVal

\* the body of the forEach over Object.keys(current.metrics)
RECURSIVE CompareKeys(_, _)
CompareKeys(cur, prev) ==
    IF cur = <<>> THEN <<>>
    ELSE LET rest == CompareKeys(Tail(cur), prev)
             key == cur[1].metric
             j == IndexOfKey(prev, key)
         IN IF j = 0 THEN rest
            ELSE LET currVal == ParseFloat(cur[1].actual)
                     prevVal == ParseFloat(prev[j].actual)
                 IN IF IsNum(currVal) /\ IsNum(prevVal) /\ prevVal.v # 0
                    THEN <<[metric |-> key, current |-> currVal.v,
                            previous |-> prevVal.v,
                            delta |-> Delta(currVal.v, prevVal.v),
                            isImproved |-> IsImproved(key, currVal.v, prevVal.v)]>>
                         \o rest
                    ELSE rest

ComparisonsWithFirst(history) ==
    IF Len(history) >= 2
    THEN [computed |-> TRUE,
          rows |-> CompareKeys(history[Len(history)].metrics, history[1].metrics)]
    ELSE [computed |-> FALSE, rows |-> <<>>]
ComparisonsBeforeAppend(history) ==
    IF Len(history) >= 3
    THEN [computed |-> TRUE,
          rows |-> CompareKeys(history[Len(history) - 1].metrics,
                               history[Len(history) - 2].metrics)]
    ELSE [computed |-> FALSE, rows |-> <<>>]
Comparisons(history) ==
    IF Len(history) >= 2
    THEN [computed |-> TRUE,
          rows |-> CompareKeys(history[Len(history)].metrics,
                               history[Len(history) - 1].metrics)]
    ELSE [computed |-> FALSE, rows |-> <<>>]

\* ------------------------------------------------------- alert severity
Alerts(cp, ce, wp, we) ==
    [critical |-> [p95_response_time_ms |-> cp, max_error_rate_percent |-> ce],
     warning |-> [p95_response_time_ms |-> wp, max_error_rate_percent |-> we]]

DefaultAlerts ==
    Alerts(Num(DefaultCriticalP95 * Unit), Num(DefaultCriticalErr * Unit),
           Num(DefaultWarningP95 * Unit), Num(DefaultWarningErr * Unit))

\* metadata.slaConfig?.alerts || { critical: ..., warning: ... }
AlertConfig(md) == IF md.hasAlerts THEN md.alerts ELSE DefaultAlerts

SeverityWarningFirst(km, alertConfig) ==
    IF JsGt(km.p95ResponseTime, alertConfig.warning.p95_response_time_ms)
       \/ JsGt(km.errorRate, alertConfig.warning.max_error_rate_percent)
    THEN "WARNING"
    ELSE IF JsGt(km.p95ResponseTime, alertConfig.critical.p95_response_time_ms)
            \/ JsGt(km.errorRate, alertConfig.critical.max_error_rate_percent)
         THEN "CRITICAL"
         ELSE "HEALTHY"
SeverityLevel(km, alertConfig) ==
    IF JsGt(km.p95ResponseTime, alertConfig.critical.p95_response_time_ms)
       \/ JsGt(km.errorRate, alertConfig.critical.max_error_rate_percent)
    THEN "CRITICAL"
    ELSE IF JsGt(km.p95ResponseTime, alertConfig.warning.p95_response_time_ms)
            \/ JsGt(km.errorRate, alertConfig.warning.max_error_rate_percent)
         THEN "WARNING"
         ELSE "HEALTHY"

\* the severity panel is rendered only when metadata.k6Metrics is set
Severity(md) ==
    IF md.hasK6Metrics THEN SeverityLevel(md.k6Metrics, AlertConfig(md)) ELSE "NONE"
\* ------------------------------------------------------------- inputs
\* actual strings as toFixed(2) writes them
Fx(whole, cents) == Str(whole * 100 + cents)
Le(n) == [op |-> "<=", bound |-> Num(n * Unit)]
Ge(n) == [op |-> ">=", bound |-> Num(n * Unit)]
Res(i, actual, threshold, passed) ==
    [metric |-> MetricNames[i], actual |-> actual, threshold |-> threshold,
     passed |-> passed]

ResultsA ==
    <<Res(3, Fx(450, 0), Le(500), TRUE), Res(5, Fx(0, 50), Le(1), TRUE),
      Res(6, Fx(5, 0), Ge(2), TRUE), Res(7, Fx(45, 0), Le(80), TRUE)>>
ResultsB ==
    <<Res(3, Fx(600, 0), Le(500), FALSE), Res(5, Fx(0, 0), Le(1), TRUE),
      Res(6, Fx(6, 0), Ge(2), TRUE), Res(7, NaNStr, Le(80), FALSE)>>
ResultsC ==
    <<Res(3, Fx(450, 0), Le(500), TRUE), Res(6, Fx(4, 0), Ge(2), TRUE),
      Res(8, Fx(60, 0), Le(85), TRUE)>>

Km(p95, err) == [p95ResponseTime |-> p95, errorRate |-> err]
Meta(profile, targetUrl, duration, hasK6, km, hasAlerts, alerts) ==
    [profile |-> profile, targetUrl |-> targetUrl, duration |-> duration,
     hasK6Metrics |-> hasK6, k6Metrics |-> km,
     hasAlerts |-> hasAlerts, alerts |-> alerts]

NoKm == Km(Undef, Undef)
MetaA == Meta("smoke", "https://target", "30.00s", TRUE,
              Km(Num(450 * Unit), Num(500)), FALSE, DefaultAlerts)
MetaB == Meta(Undefined, Undefined, Undefined, TRUE,
              Km(Num(600 * Unit), Num(0)), TRUE,
              Alerts(Num(500 * Unit), Num(5 * Unit), Num(300 * Unit), Num(1 * Unit)))
MetaC == Meta("", "https://target", "30.00s", FALSE, NoKm, FALSE, DefaultAlerts)

RunInputs ==
    {[results |-> ResultsA, meta |-> MetaA],
     [results |-> ResultsB, meta |-> MetaB],
     [results |-> ResultsC, meta |-> MetaC]}

\* the record an earlier run i persisted (its id is the clock reading i)
SeedInput(i) ==
    CASE i % 3 = 0 -> [results |-> ResultsA, meta |-> MetaA]
      [] i % 3 = 1 -> [results |-> ResultsB, meta |-> MetaB]
      [] OTHER -> [results |-> ResultsC, meta |-> MetaC]
SeedRecord(i) == JsonRecord(MakeEntry(SeedInput(i).results, SeedInput(i).meta, i))
SeedHistory(n) == [i \in 1..n |-> SeedRecord(i)]

InitLens == (0..Slack) \cup ((HistoryLimit - Slack)..HistoryLimit)
InitFiles ==
    {FileOf(k, <<>>) : k \in CorruptKinds}
      \cup {FileOf("list", SeedHistory(n)) : n \in InitLens}

StartClock == HistoryLimit + 1

\* ------------------------------------------------------------- actions
NoHist == [t |-> "list", val |-> <<>>]
NoEntry == MakeEntry(<<>>, MetaC, 0)
NoComparisons == [computed |-> FALSE, rows |-> <<>>]

InitProcs ==
    /\ pc = [p \in Procs |-> "idle"]
    /\ results = [p \in Procs |-> <<>>]
    /\ meta = [p \in Procs |-> MetaC]
    /\ seen = [p \in Procs |-> "none"]
    /\ hist = [p \in Procs |-> NoHist]
    /\ entry = [p \in Procs |-> NoEntry]
    /\ writeOutcome = [p \in Procs |-> "none"]
    /\ raised = [p \in Procs |-> FALSE]
    /\ reports = [p \in Procs |-> <<>>]
    /\ comparisons = [p \in Procs |-> NoComparisons]
    /\ severity = [p \in Procs |-> "NONE"]
    /\ runs = [p \in Procs |-> 0]
    /\ base = [p \in Procs |-> FileOf("missing", <<>>)]
    /\ order = <<>>
    /\ racing = FALSE

\* the clock of Date.now() advances
Tick ==
    /\ clock < StartClock + MaxTicks
    /\ clock' = clock + 1
    /\ UNCHANGED <<file, pc, results, meta, seen, hist, entry, writeOutcome,
                   raised, reports, comparisons, severity, runs, base, order, racing>>
    /\ UNCHANGED nonReporterVars

\* generateReport(validationResults, metadata) is called
Call(p, limit, inputs) ==
    /\ pc[p] \in {"idle", "done"}
    /\ runs[p] < limit
    /\ \E in \in inputs :
         /\ results' = [results EXCEPT ![p] = in.results]
         /\ meta' = [meta EXCEPT ![p] = in.meta]
    /\ pc' = [pc EXCEPT ![p] = "exists"]
    /\ runs' = [runs EXCEPT ![p] = @ + 1]
    /\ seen' = [seen EXCEPT ![p] = "none"]
    /\ hist' = [hist EXCEPT ![p] = NoHist]
    /\ entry' = [entry EXCEPT ![p] = NoEntry]
    /\ writeOutcome' = [writeOutcome EXCEPT ![p] = "none"]
    /\ raised' = [raised EXCEPT ![p] = FALSE]
    /\ reports' = [reports EXCEPT ![p] = <<>>]
    /\ comparisons' = [comparisons EXCEPT ![p] = NoComparisons]
    /\ severity' = [severity EXCEPT ![p] = "NONE"]
    /\ UNCHANGED <<file, clock, base, order, racing>>
    /\ UNCHANGED nonReporterVars

\* saveToHistory: fs.existsSync(HISTORY_FILE)
SaveExists(p) ==
    /\ pc[p] = "exists"
    /\ seen' = [seen EXCEPT ![p] = file.kind]
    /\ base' = [base EXCEPT ![p] = file]
    /\ pc' = [pc EXCEPT ![p] = IF file.kind = "missing" THEN "push" ELSE "read"]
    /\ UNCHANGED <<file, clock, results, meta, hist, entry, writeOutcome, raised,
                   reports, comparisons, severity, runs, order, racing>>
    /\ UNCHANGED nonReporterVars

\* saveToHistory: try { history = JSON.parse(fs.readFileSync(...)) } catch { [] }
SaveRead(p) ==
    /\ pc[p] = "read"
    /\ seen' = [seen EXCEPT ![p] = file.kind]
    /\ base' = [base EXCEPT ![p] = file]
    /\ hist' = [hist EXCEPT ![p] = ReadHistory(file)]
    /\ pc' = [pc EXCEPT ![p] = "push"]
    /\ UNCHANGED <<file, clock, results, meta, entry, writeOutcome, raised,
                   reports, comparisons, severity, runs, order, racing>>
    /\ UNCHANGED nonReporterVars

\* saveToHistory: build the entry, history.push(entry), slice to the limit;
\* push on a value that is no array raises a TypeError out of generateReport
SavePush(p) ==
    /\ pc[p] = "push"
    /\ entry' = [entry EXCEPT ![p] = MakeEntry(results[p], meta[p], clock)]
    /\ IF hist[p].t = "list"
       THEN /\ hist' = [hist EXCEPT ![p] =
                          [t |-> "list", val |-> Trim(Append(hist[p].val, entry'[p]))]]
            /\ pc' = [pc EXCEPT ![p] = "write"]
            /\ UNCHANGED raised
       ELSE /\ raised' = [raised EXCEPT ![p] = TRUE]
            /\ pc' = [pc EXCEPT ![p] = "done"]
            /\ UNCHANGED hist
    /\ UNCHANGED <<file, clock, results, meta, seen, writeOutcome, reports,
                   comparisons, severity, runs, base, order, racing>>
    /\ UNCHANGED nonReporterVars

\* saveToHistory: fs.writeFileSync(HISTORY_FILE, JSON.stringify(history))
SaveWrite(p) ==
    /\ pc[p] = "write"
    /\ file' = Stringify(hist[p].val)
    /\ writeOutcome' = [writeOutcome EXCEPT ![p] = "ok"]
    /\ reports' = [reports EXCEPT ![p] = Append(@, "history.json")]
    /\ pc' = [pc EXCEPT ![p] = "html"]
    /\ order' = Append(order, p)
    /\ racing' = IF order = <<>>
                 THEN \A q \in Procs \ {p} : pc[q] \in {"push", "write"}
                 ELSE racing
    /\ UNCHANGED <<clock, results, meta, seen, hist, entry, raised, comparisons,
                   severity, runs, base>>
    /\ UNCHANGED nonReporterVars

\* fs.writeFileSync throws (EACCES, ENOSPC, ...): nothing catches it, and the
\* file is left as it was or truncated
SaveWriteFails(p) ==
    /\ pc[p] = "write"
    /\ \E truncated \in BOOLEAN :
         file' = IF truncated THEN FileOf("garbage", <<>>) ELSE file
    /\ writeOutcome' = [writeOutcome EXCEPT ![p] = "failed"]
    /\ raised' = [raised EXCEPT ![p] = TRUE]
    /\ pc' = [pc EXCEPT ![p] = "done"]
    /\ UNCHANGED <<clock, results, meta, seen, hist, entry, reports, comparisons,
                   severity, runs, base, order, racing>>
    /\ UNCHANGED nonReporterVars

\* generateHtmlReport(validationResults, history, metadata)
GenerateHtmlReport(p) ==
    /\ pc[p] = "html"
    /\ comparisons' = [comparisons EXCEPT ![p] = Comparisons(hist[p].val)]
    /\ severity' = [severity EXCEPT ![p] = Severity(meta[p])]
    /\ reports' = [reports EXCEPT ![p] = Append(@, "report.html")]
    /\ pc' = [pc EXCEPT ![p] = "junit"]
    /\ UNCHANGED <<file, clock, results, meta, seen, hist, entry, writeOutcome,
                   raised, runs, base, order, racing>>
    /\ UNCHANGED nonReporterVars

\* generateJUnitReport(validationResults, metadata)
GenerateJUnitReport(p) ==
    /\ pc[p] = "junit"
    /\ reports' = [reports EXCEPT ![p] = Append(@, "junit-report.xml")]
    /\ pc' = [pc EXCEPT ![p] = "json"]
    /\ UNCHANGED <<file, clock, results, meta, seen, hist, entry, writeOutcome,
                   raised, comparisons, severity, runs, base, order, racing>>
    /\ UNCHANGED nonReporterVars

\* generateJsonReport(validationResults, metadata); generateReport returns
GenerateJsonReport(p) ==
    /\ pc[p] = "json"
    /\ reports' = [reports EXCEPT ![p] = Append(@, "report.json")]
    /\ pc' = [pc EXCEPT ![p] = "done"]
    /\ UNCHANGED <<file, clock, results, meta, seen, hist, entry, writeOutcome,
                   raised, comparisons, severity, runs, base, order, racing>>
    /\ UNCHANGED nonReporterVars

\* ------------------------------------------------------- SLA validator
Perf(p50, p90, p95, p99, err, thr) ==
    [p50_response_time_ms |-> p50, p90_response_time_ms |-> p90,
     p95_response_time_ms |-> p95, p99_response_time_ms |-> p99,
     max_error_rate_percent |-> err, min_throughput_rps |-> thr]
NoOverrides == Perf(Undef, Undef, Undef, Undef, Undef, Undef)

\* slaConfig.profiles[runProfile] || {}
ProfileSla(profile, config) ==
    IF profile \in DOMAIN config.profiles THEN config.profiles[profile] ELSE NoOverrides

\* { ...slaConfig.performance, ...profileSla }
PerformanceSlaDefaultsWin(profile, config) ==
    LET profileSla == ProfileSla(profile, config)
    IN [k \in DOMAIN config.performance |->
          IF config.performance[k].t # "undef" THEN config.performance[k]
          ELSE profileSla[k]]
PerformanceSla(profile, config) ==
    LET profileSla == ProfileSla(profile, config)
    IN [k \in DOMAIN config.performance |->
          IF profileSla[k].t # "undef" THEN profileSla[k] ELSE config.performance[k]]

LatencyResultStrict(i, value, bound) ==
    VR(MetricNames[i], ToFixed2(value), "<=", bound,
       IsNum(value) /\ IsNum(bound) /\ value.v < bound.v)
LatencyResult(i, value, bound) ==
    VR(MetricNames[i], ToFixed2(value), "<=", bound, JsLe(value, bound))

\* the results pushed for the k6 metrics, in the order of the source
PerformanceResults(km, sla) ==
    <<LatencyResult(1, km.p50ResponseTime,
                    JsOr(sla.p50_response_time_ms, Num(DefaultP50 * Unit))),
      LatencyResult(2, km.p90ResponseTime,
                    JsOr(sla.p90_response_time_ms, Num(DefaultP90 * Unit))),
      LatencyResult(3, km.p95ResponseTime, sla.p95_response_time_ms),
      LatencyResult(4, km.p99ResponseTime,
                    JsOr(sla.p99_response_time_ms, Num(DefaultP99 * Unit))),
      LatencyResult(5, km.errorRate, sla.max_error_rate_percent)>>
    \o (IF Truthy(sla.min_throughput_rps)
        THEN <<VR(MetricNames[6], ToFixed2(km.throughput), ">=",
                  sla.min_throughput_rps,
                  JsGe(km.throughput, sla.min_throughput_rps))>>
        ELSE <<>>)

\* infraMetrics.avgXUsage !== 'N/A': the string is reported as it is
InfraResult(i, usage, bound) ==
    IF usage.t # "na"
    THEN <<VR(MetricNames[i], usage, "<=", bound, JsLe(ParseFloat(usage), bound))>>
    ELSE <<>>

InfraResults(infra, infraSla) ==
    InfraResult(7, infra.avgCpuUsage, infraSla.max_cpu_usage_percent)
      \o InfraResult(8, infra.avgMemoryUsage, infraSla.max_memory_usage_percent)

ValidateAccumulating(km, infra, profile, config) ==
    validationResults \o PerformanceResults(km, PerformanceSla(profile, config))
      \o InfraResults(infra, config.infrastructure)
ValidateInfraFirst(km, infra, profile, config) ==
    InfraResults(infra, config.infrastructure)
      \o PerformanceResults(km, PerformanceSla(profile, config))
Validate(km, infra, profile, config) ==
    PerformanceResults(km, PerformanceSla(profile, config))
      \o InfraResults(infra, config.infrastructure)

\* inputs of the validator
K6(p50, p90, p95, p99, err, thr) ==
    [p50ResponseTime |-> Num(p50), p90ResponseTime |-> Num(p90),
     p95ResponseTime |-> Num(p95), p99ResponseTime |-> Num(p99),
     errorRate |-> Num(err), throughput |-> Num(thr)]
Infra(cpu, mem) == [avgCpuUsage |-> cpu, avgMemoryUsage |-> mem]
Ms(n) == Num(n * Unit)

K6Inputs ==
    {K6(150 * Unit, 300 * Unit, 400 * Unit, 800 * Unit, 500, 50 * Unit),
     K6(200 * Unit + 4, 400 * Unit, 600 * Unit, 1000 * Unit + 4, 2 * Unit, 40 * Unit),
     K6(0, 0, 0, 0, 0, 0),
     K6(250 * Unit, 500 * Unit, 500 * Unit + 4, 3000 * Unit, Unit + 4, 39 * Unit + 996)}
InfraInputs ==
    {Infra(cpu, mem) : cpu \in {NA, Str(4500), Str(8001), NaNStr, Undef},
                       mem \in {NA, Str(6000), Undef}}
PerfInputs ==
    {Perf(Ms(200), Ms(400), Ms(500), Ms(1000), Ms(1), Ms(40)),
     Perf(Undef, Undef, Ms(500), Undef, Ms(1), Undef),
     Perf(Ms(600), Ms(1200), Undef, Ms(2500), Ms(1), Ms(2)),
     Perf(Ms(200), Ms(400), Ms(500), Ms(1000), Undef, Undef),
     Perf(Ms(0), Ms(0), Ms(0), Ms(0), Ms(0), Ms(0))}
OverrideInputs ==
    {NoOverrides,
     Perf(Undef, Undef, Ms(300), Undef, Undef, Undef),
     Perf(Ms(0), Ms(100), Undef, Ms(2000), Ms(2), Ms(0)),
     Perf(Ms(100), Undef, Ms(3000), Undef, Ms(5), Ms(45))}
ProfileInputs == {"default", "smoke", "soak"}
InfraSla == [max_cpu_usage_percent |-> Ms(80), max_memory_usage_percent |-> Ms(85)]
SlaConfig(perf, smoke) ==
    [performance |-> perf, profiles |-> [n \in {"smoke"} |-> smoke],
     infrastructure |-> InfraSla]

ValidatorIdle ==
    /\ vpc = "idle"
    /\ k6Metrics = K6(0, 0, 0, 0, 0, 0)
    /\ infraMetrics = Infra(NA, NA)
    /\ runProfile = "default"
    /\ slaConfig = SlaConfig(NoOverrides, NoOverrides)
    /\ performanceSla = NoOverrides
    /\ validationResults = <<>>
    /\ previousResults = <<>>

\* validateAgainstSLA(k6Metrics, infraMetrics, runProfile, slaConfig) returns
ValidateAgainstSLA ==
    /\ vpc \in {"called", "recalled"}
    /\ performanceSla' = PerformanceSla(runProfile, slaConfig)
    /\ validationResults' = Validate(k6Metrics, infraMetrics, runProfile, slaConfig)
    /\ vpc' = IF vpc = "called" THEN "done" ELSE "redone"
    /\ UNCHANGED <<k6Metrics, infraMetrics, runProfile, slaConfig, previousResults>>
    /\ UNCHANGED nonValidatorVars

\* the caller keeps what the call returned and calls again with the same
\* arguments
ValidateAgain ==
    /\ vpc = "done"
    /\ previousResults' = validationResults
    /\ vpc' = "recalled"
    /\ UNCHANGED <<k6Metrics, infraMetrics, runProfile, slaConfig, performanceSla,
                   validationResults>>
    /\ UNCHANGED nonValidatorVars

\* ----------------------------------------------------- metric extractor
\* A JSON object is [t |-> "obj", v |-> its properties]; a property that the
\* object lacks reads as Undef. In http_req_duration the property p50 stands
\* for 'p(50)', p90 for 'p(90)', p95 for 'p(95)' and p99 for 'p(99)'.
Obj(props) == [t |-> "obj", v |-> props]
IsObj(x) == x.t = "obj"

\* duration[k] || 0 inside `if (summary.metrics.http_req_duration)`
LatencyNoDefault(duration, k) ==
    IF IsObj(duration) THEN duration.v[k] ELSE Num(0)
Latency(duration, k) ==
    IF IsObj(duration) THEN JsOr(duration.v[k], Num(0)) ELSE Num(0)

\* duration['med'] || duration['p(50)'] || 0
P50(duration) ==
    IF IsObj(duration) THEN JsOr(duration.v.med, JsOr(duration.v.p50, Num(0)))
    ELSE Num(0)

\* value * 100
Times100(x) == IF IsNum(x) THEN Num(x.v * 100) ELSE NaN

\* errors.value * 100 when errors has a value, else http_req_failed.value * 100
\* when http_req_failed has a value, else the initial 0
ErrorRateFailedFirst(m) ==
    IF IsObj(m.http_req_failed) /\ m.http_req_failed.v.value.t # "undef"
    THEN Times100(m.http_req_failed.v.value)
    ELSE IF IsObj(m.errors) /\ m.errors.v.value.t # "undef"
         THEN Times100(m.errors.v.value)
         ELSE Num(0)
ErrorRate(m) ==
    IF IsObj(m.errors) /\ m.errors.v.value.t # "undef"
    THEN Times100(m.errors.v.value)
    ELSE IF IsObj(m.http_req_failed) /\ m.http_req_failed.v.value.t # "undef"
         THEN Times100(m.http_req_failed.v.value)
         ELSE Num(0)

\* metric[k] || 0 inside `if (summary.metrics.<metric>)`
Counter(metric, k) ==
    IF IsObj(metric) THEN JsOr(metric.v[k], Num(0)) ELSE Num(0)

\* { name: check.name || 'Unknown Check', passes: check.passes, fails: check.fails }
CheckData(check) ==
    [name |-> IF check.name \in {Undefined, ""} THEN "Unknown Check" ELSE check.name,
     passes |-> check.passes, fails |-> check.fails]

\* A keyed checks object is the sequence of its [key, value] members in the
\* order of the JSON text. A key is [name, index]: index is the number the
\* name spells when the name is a canonical array index ("200"), else -1.
\* Object.values(checks): the members whose key is an array index first, in
\* ascending numeric order, then the other members in the order of the text
RECURSIVE AscendingIndex(_)
AscendingIndex(members) ==
    IF members = <<>> THEN <<>>
    ELSE LET i == CHOOSE i \in 1..Len(members) :
                    \A j \in 1..Len(members) :
                       members[i].key.index <= members[j].key.index
         IN <<members[i]>>
              \o AscendingIndex(SubSeq(members, 1, i - 1)
                                  \o SubSeq(members, i + 1, Len(members)))
ObjectValues(members) ==
    LET ordered == AscendingIndex(SelectSeq(members, LAMBDA e : e.key.index >= 0))
                     \o SelectSeq(members, LAMBDA e : e.key.index < 0)
    IN [i \in 1..Len(ordered) |-> ordered[i].value]

\* root_group.checks: an array, or an object whose values are taken in the
\* order of Object.values; anything else gives no checks
ChecksData(root) ==
    IF IsObj(root) /\ root.v.checks.t = "array"
    THEN [i \in 1..Len(root.v.checks.v) |-> CheckData(root.v.checks.v[i])]
    ELSE IF IsObj(root) /\ root.v.checks.t = "map"
         THEN LET values == ObjectValues(root.v.checks.v)
              IN [i \in 1..Len(values) |-> CheckData(values[i])]
         ELSE <<>>

\* avg?.toFixed(2) || 0: the text of avg, the number 0 when avg is missing
AvgDur(metric) == IF IsNum(metric.v.avg) THEN ToFixed2(metric.v.avg) ELSE Num(0)

Endpoints(m) ==
    (IF IsObj(m.browse_duration)
     THEN <<[name |-> "GET /posts (Browse/List)", avgDur |-> AvgDur(m.browse_duration)]>>
     ELSE <<>>)
    \o (IF IsObj(m.api_duration)
        THEN <<[name |-> "API Dynamic endpoints (GET/POST)",
                avgDur |-> AvgDur(m.api_duration)]>>
        ELSE <<>>)

\* the MetricSet built from a payload whose metrics container exists
Extract(payload) ==
    LET m == payload.metrics.v
    IN [p50ResponseTime |-> P50(m.http_req_duration),
        p90ResponseTime |-> Latency(m.http_req_duration, "p90"),
        p95ResponseTime |-> Latency(m.http_req_duration, "p95"),
        p99ResponseTime |-> Latency(m.http_req_duration, "p99"),
        avgResponseTime |-> Latency(m.http_req_duration, "avg"),
        minResponseTime |-> Latency(m.http_req_duration, "min"),
        maxResponseTime |-> Latency(m.http_req_duration, "max"),
        errorRate |-> ErrorRate(m),
        throughput |-> Counter(m.http_reqs, "rate"),
        totalRequests |-> Counter(m.http_reqs, "count"),
        iterations |-> Counter(m.iterations, "count"),
        checksData |-> ChecksData(payload.root_group),
        endpoints |-> Endpoints(m)]

\* payloads
Duration(med, p50, p90, p95, p99, avg, min, max) ==
    Obj([med |-> med, p50 |-> p50, p90 |-> p90, p95 |-> p95, p99 |-> p99,
         avg |-> avg, min |-> min, max |-> max])
Rate(value) == Obj([value |-> value])
Reqs(count, rate) == Obj([count |-> count, rate |-> rate])
Iterations(count) == Obj([count |-> count])
Trend(avg) == Obj([avg |-> avg])
Check(name, passes, fails) == [name |-> name, passes |-> passes, fails |-> fails]
Checks(kind, list) == [t |-> kind, v |-> list]
Key(name, index) == [name |-> name, index |-> index]
Member(key, value) == [key |-> key, value |-> value]
\* the keyed object that holds the checks of a list under their names
KeyedByName(list) ==
    [i \in 1..Len(list) |-> Member(Key(list[i].name, -1), list[i])]
RootGroup(checks) == Obj([checks |-> checks])
Metrics(duration, errors, failed, reqs, iterations, browse, api) ==
    Obj([http_req_duration |-> duration, errors |-> errors,
         http_req_failed |-> failed, http_reqs |-> reqs, iterations |-> iterations,
         browse_duration |-> browse, api_duration |-> api])
Summary(m, root) == [metrics |-> m, root_group |-> root]

DurationInputs ==
    {Undef,
     Duration(Undef, Undef, Undef, Undef, Undef, Undef, Undef, Undef),
     Duration(Ms(150), Undef, Ms(300), Ms(450), Ms(900), Ms(200), Ms(10), Ms(1200)),
     Duration(Undef, Ms(140), Ms(300), Ms(450), Ms(900), Ms(200), Ms(10), Ms(1200)),
     Duration(Ms(0), Ms(140), Ms(300), Undef, Ms(900), Ms(200), Ms(0), Ms(1200)),
     Duration(Ms(150), Ms(140), Undef, Ms(450), Undef, Undef, Undef, Undef)}
ErrorsInputs == {Undef, Rate(Undef), Rate(Num(20)), Rate(Ms(0))}
FailedInputs == {Undef, Rate(Undef), Rate(Num(50))}
ReqsInputs == {Undef, Reqs(Undef, Undef), Reqs(Ms(100), Num(5500)), Reqs(Ms(0), Ms(0))}
IterationsInputs == {Undef, Iterations(Undef), Iterations(Ms(100))}
TrendInputs == {<<Undef, Undef>>, <<Trend(Num(120550)), Trend(Num(250330))>>,
                <<Trend(Undef), Undef>>, <<Undef, Trend(Ms(0))>>}
ChecksInputs ==
    {<<Check("status is 200", Ms(95), Ms(5)),
       Check("response time < 3000ms", Ms(90), Ms(10))>>,
     <<Check(Undefined, Ms(50), Ms(0)), Check("check2", Undef, Ms(2))>>}
\* checks whose names are status codes: as a list, and keyed by name
StatusChecks ==
    <<Check("404", Ms(0), Ms(100)), Check("status ok", Ms(90), Ms(10)),
      Check("200", Ms(95), Ms(5))>>
StatusChecksKeyed ==
    <<Member(Key("404", 404), StatusChecks[1]),
      Member(Key("status ok", -1), StatusChecks[2]),
      Member(Key("200", 200), StatusChecks[3])>>
RootGroupInputs ==
    {Undef, RootGroup(Undef)}
      \cup {RootGroup(Checks("array", list)) : list \in ChecksInputs \cup {StatusChecks}}
      \cup {RootGroup(Checks("map", KeyedByName(list))) : list \in ChecksInputs}
      \cup {RootGroup(Checks("map", StatusChecksKeyed))}
MetricsInputs ==
    {Metrics(d, e, f, q, i, t[1], t[2]) :
       d \in DurationInputs, e \in ErrorsInputs, f \in FailedInputs,
       q \in ReqsInputs, i \in IterationsInputs, t \in TrendInputs}
SummaryInputs ==
    {Summary(m, root) : m \in MetricsInputs \cup {Undef}, root \in RootGroupInputs}

NoMetricSet == Undef
ExtractorIdle ==
    /\ xpc = "idle"
    /\ summary = Summary(Undef, Undef)
    /\ metrics = NoMetricSet

\* extractK6Metrics(summary): reading a property of summary.metrics raises a
\* TypeError when the payload has no metrics container; the numbers of a JSON
\* payload make every logged field a number, so the log lines never raise
ExtractK6Metrics ==
    /\ xpc = "called"
    /\ IF IsObj(summary.metrics)
       THEN xpc' = "returned" /\ metrics' = Extract(summary)
       ELSE xpc' = "raised" /\ metrics' = metrics
    /\ UNCHANGED summary
    /\ UNCHANGED nonExtractorVars

\* ------------------------------------------------- Prometheus range query
\* what a request can come to: a response with status 'success' and one of
\* two result lists, a response without that status, or a thrown error
RequestOutcomes ==
    {[kind |-> "success", data |-> d] : d \in {"no series", "one series"}}
      \cup {[kind |-> k, data |-> "none"] : k \in {"nonsuccess", "thrown"}}

\* { success: true, data: response.data.data.result } and
\* { success: false, error: lastError?.message, data: [] }
QuerySucceeded(data) == [success |-> TRUE, data |-> data]
QueryFailed == [success |-> FALSE, data |-> "no series"]

\* the catch block sleeps only `if (attempt < maxRetries)`
SleepsAfterLast(outcome, n, max) == outcome.kind = "thrown"
SleepsAfter(outcome, n, max) == outcome.kind = "thrown" /\ n < max

QueryIdle ==
    /\ qpc = "idle"
    /\ maxRetries = 0
    /\ attempt = 1
    /\ outcomes = <<>>
    /\ sleeps = <<>>
    /\ queryResult = QueryFailed

\* the loop test `attempt <= maxRetries` with the loop variable at n: issue
\* the next request, or leave the loop and return the failure
LoopTest(n) ==
    IF n <= maxRetries
    THEN qpc' = "request" /\ UNCHANGED queryResult
    ELSE qpc' = "returned" /\ queryResult' = QueryFailed

\* queryPrometheusRange(query, start, end, step, maxRetries) is entered
QueryPrometheusRange ==
    /\ qpc = "called"
    /\ LoopTest(attempt)
    /\ UNCHANGED <<maxRetries, attempt, outcomes, sleeps>>
    /\ UNCHANGED nonQueryVars

\* `await axios.get(...)` settles: return on a successful response, go to
\* sleep after a thrown error when another attempt follows, else loop on
QueryRequest ==
    /\ qpc = "request"
    /\ \E outcome \in RequestOutcomes :
         /\ outcomes' = Append(outcomes, outcome)
         /\ IF outcome.kind = "success"
            THEN /\ qpc' = "returned"
                 /\ queryResult' = QuerySucceeded(outcome.data)
                 /\ UNCHANGED <<attempt, sleeps>>
            ELSE IF SleepsAfter(outcome, attempt, maxRetries)
                 THEN /\ qpc' = "sleeping"
                      /\ sleeps' = Append(sleeps, [attempt |-> attempt,
                                                   ms |-> RetryDelay * attempt])
                      /\ UNCHANGED <<attempt, queryResult>>
                 ELSE /\ attempt' = attempt + 1
                      /\ LoopTest(attempt + 1)
                      /\ UNCHANGED sleeps
    /\ UNCHANGED maxRetries
    /\ UNCHANGED nonQueryVars

\* `await sleep(delay)` is over: the next iteration of the loop
QueryWakes ==
    /\ qpc = "sleeping"
    /\ attempt' = attempt + 1
    /\ LoopTest(attempt + 1)
    /\ UNCHANGED <<maxRetries, outcomes, sleeps>>
    /\ UNCHANGED nonQueryVars

\* ------------------------------------------------------- the orchestrator
\* what runK6LoadTest does before any process is spawned: resolve to true in
\* a dry run, to fs.existsSync(summaryPath) with --skip-k6, else spawn k6
K6PlanNoDryRun(opts, exists) ==
    IF opts.skipK6 THEN (IF exists THEN "true" ELSE "false") ELSE "spawn"
K6Plan(opts, exists) ==
    IF opts.dryRun THEN "true"
    ELSE IF opts.skipK6 THEN (IF exists THEN "true" ELSE "false")
    ELSE "spawn"

\* the 'close' handler: resolve(fs.existsSync(summaryPath)) for the exit codes
\* 0 and 99, resolve(false) for any other
CloseResultAnyCode(code, exists) == IF exists THEN "true" ELSE "false"
CloseResult(code, exists) ==
    IF code \in {0, 99} /\ exists THEN "true" ELSE "false"

\* the code given to process.exit on each way out
ExitCodeOf(path) == IF path \in {"dryrun", "success"} THEN 0 ELSE 1
Exited(path) == [code |-> ExitCodeOf(path), path |-> path]
Running == [code |-> -1, path |-> "running"]

\* getSeverity(failed, alertThresholds) of the notifier
GetSeverity(failed, alerts) ==
    LET critical == IF alerts.has THEN alerts.table.critical
                    ELSE [p95_response_time_ms |-> Undef,
                          max_error_rate_percent |-> Undef]
        IsCritical(failure) ==
            \/ /\ failure.metric \in {MetricNames[1], MetricNames[2],
                                      MetricNames[3], MetricNames[4]}
               /\ Truthy(critical.p95_response_time_ms)
               /\ JsGe(ParseFloat(failure.actual), critical.p95_response_time_ms)
            \/ /\ failure.metric = MetricNames[5]
               /\ Truthy(critical.max_error_rate_percent)
               /\ JsGe(ParseFloat(failure.actual), critical.max_error_rate_percent)
    IN IF failed = <<>> THEN "success"
       ELSE IF \E i \in 1..Len(failed) : IsCritical(failed[i]) THEN "critical"
       ELSE IF Len(failed) > 1 THEN "warning" ELSE "info"

\* closeAnnotation(id): nothing without credentials or id; else the PATCH
\* closes the annotation or fails, which is only logged
CloseAnnotation ==
    IF annotation = "open" THEN annotation' \in {"closed", "open"}
    ELSE UNCHANGED annotation

\* k6-summary.json: missing, text that JSON.parse rejects, or a payload
PipelinePayloads ==
    {Summary(Undef, Undef),
     Summary(Metrics(Duration(Ms(150), Undef, Ms(300), Ms(450), Ms(900), Ms(200),
                              Ms(10), Ms(1200)),
                     Rate(Ms(0)), Undef, Reqs(Ms(100), Ms(50)), Iterations(Ms(100)),
                     Undef, Undef), Undef),
     Summary(Metrics(Duration(Ms(700), Undef, Ms(800), Ms(900), Ms(1500), Ms(750),
                              Ms(10), Ms(1800)),
                     Rate(Num(20)), Undef, Reqs(Ms(100), Ms(50)), Iterations(Ms(100)),
                     Undef, Undef), Undef),
     Summary(Metrics(Duration(Ms(150), Undef, Ms(300), Ms(1000), Ms(1000), Ms(200),
                              Ms(10), Ms(1200)),
                     Rate(Ms(0)), Undef, Reqs(Ms(100), Ms(50)), Iterations(Ms(100)),
                     Undef, Undef), Undef),
     Summary(Metrics(Duration(Ms(150), Undef, Ms(300), Ms(450), Ms(900), Ms(200),
                              Ms(10), Ms(1200)),
                     Rate(Num(120)), Undef, Reqs(Ms(100), Ms(50)), Iterations(Ms(100)),
                     Undef, Undef), Undef)}
\* the alerts section of sla.json, when it has one
PipelineAlerts == Alerts(Ms(1000), Ms(5), Ms(300), Ms(1))
SummaryFiles ==
    {[kind |-> "missing", payload |-> Summary(Undef, Undef)],
     [kind |-> "garbage", payload |-> Summary(Undef, Undef)]}
      \cup {[kind |-> "json", payload |-> payload] : payload \in PipelinePayloads}

\* what the child process will emit: 'error' for a failed spawn, with or
\* without a 'close' carrying a negative code, or a 'close' with the exit code
ChildEvents ==
    {{[type |-> "error", code |-> 0]},
     {[type |-> "error", code |-> 0], [type |-> "close", code |-> -2]}}
      \cup {{[type |-> "close", code |-> c]} : c \in {0, 99, 1, 107}}

OrchestratorIdle ==
    /\ opc = "idle"
    /\ options = [dryRun |-> FALSE, skipK6 |-> FALSE]
    /\ env = [k6Installed |-> TRUE, grafana |-> FALSE, grafanaUp |-> FALSE,
              alerts |-> [has |-> FALSE, table |-> PipelineAlerts]]
    /\ annotation = "none"
    /\ events = {}
    /\ delivered = <<>>
    /\ k6Started = FALSE
    /\ k6Ran = "pending"
    /\ summaryFile = [kind |-> "missing", payload |-> Summary(Undef, Undef)]
    /\ notified = "none"
    /\ exit = Running

\* verifyPrerequisites: process.exit(1) when `k6 version` cannot be run
VerifyPrerequisites ==
    /\ opc = "start"
    /\ IF env.k6Installed
       THEN opc' = "annotate" /\ UNCHANGED exit
       ELSE opc' = "exited" /\ exit' = Exited("prerequisites")
    /\ UNCHANGED <<options, env, annotation, events, delivered, k6Started, k6Ran,
                   summaryFile, notified>>
    /\ UNCHANGED <<reporterVars, validatorVars, extractorVars, queryVars>>

\* createAnnotation: null without credentials or when the POST fails
CreateAnnotation ==
    /\ opc = "annotate"
    /\ annotation' = IF env.grafana /\ env.grafanaUp THEN "open" ELSE "none"
    /\ opc' = "k6"
    /\ UNCHANGED <<options, env, events, delivered, k6Started, k6Ran,
                   summaryFile, notified, exit>>
    /\ UNCHANGED <<reporterVars, validatorVars, extractorVars, queryVars>>

\* runK6LoadTest up to its return or to the spawn of k6; a spawned k6 leaves
\* some k6-summary.json behind, or none
RunK6LoadTest ==
    /\ opc = "k6"
    /\ LET plan == K6Plan(options, summaryFile.kind # "missing")
       IN IF plan = "spawn"
          THEN /\ k6Started' = TRUE
               /\ events' \in ChildEvents
               /\ summaryFile' \in SummaryFiles
               /\ opc' = "k6wait"
               /\ UNCHANGED k6Ran
          ELSE /\ k6Ran' = plan
               /\ opc' = "k6done"
               /\ UNCHANGED <<k6Started, events, summaryFile>>
    /\ UNCHANGED <<options, env, annotation, delivered, notified, exit>>
    /\ UNCHANGED <<reporterVars, validatorVars, extractorVars, queryVars>>

\* an event of the child process is delivered to its handler; resolve has an
\* effect only on a promise that is still pending
K6Event ==
    /\ opc # "exited"
    /\ \E e \in events :
         /\ events' = events \ {e}
         /\ delivered' = Append(delivered, e)
         /\ k6Ran' = IF k6Ran # "pending" THEN k6Ran
                      ELSE IF e.type = "error" THEN "false"
                      ELSE CloseResult(e.code, summaryFile.kind # "missing")
    /\ UNCHANGED <<opc, options, env, annotation, k6Started, summaryFile,
                   notified, exit>>
    /\ UNCHANGED <<reporterVars, validatorVars, extractorVars, queryVars>>

\* `await runK6LoadTest(...)` resumes
K6Settled ==
    /\ opc = "k6wait"
    /\ k6Ran # "pending"
    /\ opc' = "k6done"
    /\ UNCHANGED <<options, env, annotation, events, delivered, k6Started, k6Ran,
                   summaryFile, notified, exit>>
    /\ UNCHANGED <<reporterVars, validatorVars, extractorVars, queryVars>>

\* lines 228-243: stop on a failed k6 run, in a dry run or without a summary
\* file; otherwise parse the file (a SyntaxError is an unhandled rejection)
\* and call extractK6Metrics
ReadSummary ==
    /\ opc = "k6done"
    /\ IF k6Ran = "false" /\ ~options.dryRun
       THEN /\ CloseAnnotation
            /\ opc' = "exited" /\ exit' = Exited("k6 failed")
            /\ UNCHANGED <<summary, xpc>>
       ELSE IF options.dryRun
       THEN /\ opc' = "exited" /\ exit' = Exited("dryrun")
            /\ UNCHANGED <<annotation, summary, xpc>>
       ELSE IF summaryFile.kind = "missing"
       THEN /\ CloseAnnotation
            /\ opc' = "exited" /\ exit' = Exited("no summary")
            /\ UNCHANGED <<summary, xpc>>
       ELSE IF summaryFile.kind = "garbage"
       THEN /\ opc' = "exited" /\ exit' = Exited("uncaught")
            /\ UNCHANGED <<annotation, summary, xpc>>
       ELSE /\ summary' = summaryFile.payload
            /\ xpc' = "called"
            /\ opc' = "extract"
            /\ UNCHANGED <<annotation, exit>>
    /\ UNCHANGED metrics
    /\ UNCHANGED <<options, env, events, delivered, k6Started, k6Ran,
                   summaryFile, notified>>
    /\ UNCHANGED <<reporterVars, validatorVars, queryVars>>

\* lines 243-245: a TypeError out of extractK6Metrics is an unhandled
\* rejection; otherwise queryObservability gives the infrastructure snapshot
\* and validateAgainstSLA is called on the extracted metrics
Observe ==
    /\ opc = "extract"
    /\ xpc \in {"returned", "raised"}
    /\ IF xpc = "raised"
       THEN /\ opc' = "exited" /\ exit' = Exited("uncaught")
            /\ UNCHANGED <<vpc, k6Metrics, infraMetrics>>
       ELSE /\ k6Metrics' = metrics
            /\ infraMetrics' \in {Infra(NA, NA), Infra(Str(4500), Str(6000))}
            /\ vpc' = "called"
            /\ opc' = "validate"
            /\ UNCHANGED exit
    /\ UNCHANGED <<runProfile, slaConfig, performanceSla, validationResults,
                   previousResults>>
    /\ UNCHANGED <<options, env, annotation, events, delivered, k6Started, k6Ran,
                   summaryFile, notified>>
    /\ UNCHANGED <<reporterVars, extractorVars, queryVars>>

\* generateArtifacts: reportMetadata of the run
ReportMetadata ==
    Meta(runProfile, "https://target", "30.00s", TRUE,
         Km(k6Metrics.p95ResponseTime, k6Metrics.errorRate),
         env.alerts.has, env.alerts.table)

\* generateArtifacts: generateReport(validationResults, reportMetadata)
GenerateArtifacts ==
    /\ opc = "validate"
    /\ vpc = "done"
    /\ Call(1, 1, {[results |-> validationResults, meta |-> ReportMetadata]})

\* generateArtifacts: an error out of generateReport is an unhandled
\* rejection; otherwise sendNotification classifies the failed results
SendNotification ==
    /\ opc = "validate"
    /\ pc[1] = "done"
    /\ IF raised[1]
       THEN /\ opc' = "exited" /\ exit' = Exited("uncaught")
            /\ UNCHANGED notified
       ELSE /\ notified' = GetSeverity(SelectSeq(validationResults, Failed),
                                       env.alerts)
            /\ opc' = "finalize"
            /\ UNCHANGED exit
    /\ UNCHANGED <<options, env, annotation, events, delivered, k6Started, k6Ran,
                   summaryFile>>
    /\ UNCHANGED <<reporterVars, validatorVars, extractorVars, queryVars>>

\* updateGrafanaAnnotation and lines 251-257: exit 1 on any failed result
Finalize ==
    /\ opc = "finalize"
    /\ CloseAnnotation
    /\ opc' = "exited"
    /\ exit' = IF SelectSeq(validationResults, Failed) # <<>>
               THEN Exited("sla violation") ELSE Exited("success")
    /\ UNCHANGED <<options, env, events, delivered, k6Started, k6Ran,
                   summaryFile, notified>>
    /\ UNCHANGED <<reporterVars, validatorVars, extractorVars, queryVars>>

\* ------------------------------------------- the sequential orchestrator
Init ==
    /\ file \in InitFiles
    /\ clock = StartClock
    /\ InitProcs
    /\ ValidatorIdle
    /\ ExtractorIdle
    /\ QueryIdle
    /\ OrchestratorIdle

Next ==
    \/ Tick
    \/ Call(1, MaxRuns, RunInputs)
    \/ SaveExists(1)
    \/ SaveRead(1)
    \/ SavePush(1)
    \/ SaveWrite(1)
    \/ SaveWriteFails(1)
    \/ GenerateHtmlReport(1)
    \/ GenerateJUnitReport(1)
    \/ GenerateJsonReport(1)

Spec == Init /\ [][Next]_vars
\* ------------------------------------------- two racing processes
InitRace ==
    /\ file \in InitFiles
    /\ clock = StartClock
    /\ InitProcs
    /\ ValidatorIdle
    /\ ExtractorIdle
    /\ QueryIdle
    /\ OrchestratorIdle

NextRace ==
    \/ Tick
    \/ \E p \in Procs : Call(p, 1, RunInputs)
    \/ \E p \in Procs : SaveExists(p)
    \/ \E p \in Procs : SaveRead(p)
    \/ \E p \in Procs : SavePush(p)
    \/ \E p \in Procs : SaveWrite(p)
    \/ \E p \in Procs : SaveWriteFails(p)
    \/ \E p \in Procs : GenerateHtmlReport(p)
    \/ \E p \in Procs : GenerateJUnitReport(p)
    \/ \E p \in Procs : GenerateJsonReport(p)

SpecRace == InitRace /\ [][NextRace]_vars

\* ------------------------------------------- one report, any alert inputs
SeverityKms ==
    {Km(p, e) : p \in {Undef, Ms(400), Ms(500), Num(500 * Unit + 1), Ms(800),
                       Num(800 * Unit + 1), Ms(2000), Num(2000 * Unit + 1)},
                e \in {Undef, Ms(0), Ms(3), Num(3 * Unit + 1), Ms(10),
                       Num(10 * Unit + 1)}}
SeverityAlerts ==
    {Alerts(cp, ce, wp, we) : cp \in {Ms(500), Ms(2000)}, ce \in {Ms(3), Ms(10)},
                              wp \in {Ms(800), Ms(2000)}, we \in {Ms(3), Ms(10)}}
SeverityInputs ==
    {[results |-> ResultsA,
      meta |-> Meta("smoke", "https://target", "30.00s", TRUE, km, TRUE, a)] :
       km \in SeverityKms, a \in SeverityAlerts}
      \cup {[results |-> ResultsA,
             meta |-> Meta("smoke", "https://target", "30.00s", TRUE, km, FALSE,
                           DefaultAlerts)] : km \in SeverityKms}
      \cup {[results |-> ResultsA, meta |-> MetaC]}

InitSeverity ==
    /\ file = FileOf("list", SeedHistory(1))
    /\ clock = StartClock
    /\ InitProcs
    /\ ValidatorIdle
    /\ ExtractorIdle
    /\ QueryIdle
    /\ OrchestratorIdle

NextSeverity ==
    \/ Call(1, 1, SeverityInputs)
    \/ SaveExists(1)
    \/ SaveRead(1)
    \/ SavePush(1)
    \/ SaveWrite(1)
    \/ SaveWriteFails(1)
    \/ GenerateHtmlReport(1)
    \/ GenerateJUnitReport(1)
    \/ GenerateJsonReport(1)

SpecSeverity == InitSeverity /\ [][NextSeverity]_vars

\* ------------------------------------------- one call of the validator
InitValidate ==
    /\ file = FileOf("missing", <<>>)
    /\ clock = StartClock
    /\ InitProcs
    /\ vpc = "called"
    /\ k6Metrics \in K6Inputs
    /\ infraMetrics \in InfraInputs
    /\ runProfile \in ProfileInputs
    /\ slaConfig \in {SlaConfig(perf, smoke) : perf \in PerfInputs,
                                                smoke \in OverrideInputs}
    /\ performanceSla = NoOverrides
    /\ validationResults = <<>>
    /\ previousResults = <<>>
    /\ ExtractorIdle
    /\ QueryIdle
    /\ OrchestratorIdle

NextValidate ==
    \/ ValidateAgainstSLA
    \/ ValidateAgain

SpecValidate == InitValidate /\ [][NextValidate]_vars

\* ------------------------------------------- one call of the extractor
InitExtract ==
    /\ file = FileOf("missing", <<>>)
    /\ clock = StartClock
    /\ InitProcs
    /\ ValidatorIdle
    /\ xpc = "called"
    /\ summary \in SummaryInputs
    /\ metrics = NoMetricSet
    /\ QueryIdle
    /\ OrchestratorIdle

NextExtract == ExtractK6Metrics

SpecExtract == InitExtract /\ [][NextExtract]_vars

\* ------------------------------------------- one Prometheus range query
InitQuery ==
    /\ file = FileOf("missing", <<>>)
    /\ clock = StartClock
    /\ InitProcs
    /\ ValidatorIdle
    /\ ExtractorIdle
    /\ qpc = "called"
    /\ maxRetries \in 0..MaxAttempts
    /\ attempt = 1
    /\ outcomes = <<>>
    /\ sleeps = <<>>
    /\ queryResult = QueryFailed
    /\ OrchestratorIdle

NextQuery ==
    \/ QueryPrometheusRange
    \/ QueryRequest
    \/ QueryWakes

SpecQuery == InitQuery /\ [][NextQuery]_vars

\* ------------------------------------------- one run of the orchestrator
InitPipeline ==
    /\ file \in {FileOf("missing", <<>>), FileOf("nonlist", <<>>),
                  FileOf("list", SeedHistory(2)),
                  FileOf("list", SeedHistory(HistoryLimit))}
    /\ clock = StartClock
    /\ InitProcs
    /\ vpc = "idle"
    /\ k6Metrics = K6(0, 0, 0, 0, 0, 0)
    /\ infraMetrics = Infra(NA, NA)
    /\ runProfile \in {"default", "smoke"}
    /\ slaConfig = SlaConfig(Perf(Ms(200), Ms(400), Ms(500), Ms(1000), Ms(1), Ms(40)),
                             Perf(Undef, Undef, Ms(3000), Ms(3000), Undef, Undef))
    /\ performanceSla = NoOverrides
    /\ validationResults = <<>>
    /\ previousResults = <<>>
    /\ ExtractorIdle
    /\ QueryIdle
    /\ opc = "start"
    /\ options \in [dryRun : BOOLEAN, skipK6 : BOOLEAN]
    /\ env \in [k6Installed : BOOLEAN, grafana : BOOLEAN, grafanaUp : BOOLEAN,
                 alerts : [has : BOOLEAN, table : {PipelineAlerts}]]
    /\ annotation = "none"
    /\ events = {}
    /\ delivered = <<>>
    /\ k6Started = FALSE
    /\ k6Ran = "pending"
    /\ summaryFile \in SummaryFiles
    /\ notified = "none"
    /\ exit = Running

NextPipeline ==
    \/ VerifyPrerequisites
    \/ CreateAnnotation
    \/ RunK6LoadTest
    \/ K6Event
    \/ K6Settled
    \/ ReadSummary
    \/ ExtractK6Metrics
    \/ Observe
    \/ ValidateAgainstSLA
    \/ GenerateArtifacts
    \/ SaveExists(1)
    \/ SaveRead(1)
    \/ SavePush(1)
    \/ SaveWrite(1)
    \/ SaveWriteFails(1)
    \/ GenerateHtmlReport(1)
    \/ GenerateJUnitReport(1)
    \/ GenerateJsonReport(1)
    \/ SendNotification
    \/ Finalize

SpecPipeline == InitPipeline /\ [][NextPipeline]_vars

\* ================================================================ claims
\* the step of process 1 in which writeFileSync(HISTORY_FILE) succeeds
Appended == pc[1] = "write" /\ pc'[1] = "html"
Suffixes(s) == {SubSeq(s, k + 1, Len(s)) : k \in 0..(Len(s) - 1)}

\* C1: a persisted history of at most 50 records never grows past 50 records,
\* and every append leaves min(previous length + 1, 50) records.
C1_HistoryBound ==
    /\ [](file.kind = "list" => Len(file.val) <= HistoryLimit)
    /\ [][(Appended /\ file.kind = "list")
            => /\ file'.kind = "list"
               /\ Len(file'.val) = Min(Len(file.val) + 1, HistoryLimit)]_vars

\* an append to a full history has just evicted one record
C1_Witness ==
    /\ pc[1] = "html"
    /\ base[1].kind = "list" /\ Len(base[1].val) = HistoryLimit
    /\ file.kind = "list" /\ Len(file.val) = HistoryLimit

\* C2: every append persists the previous sequence followed by the new record,
\* less some leading records: retained records are unchanged and in order,
\* and the new record is last.
C2_AppendOnlyFifo ==
    [][(Appended /\ file.kind = "list")
         => /\ file'.kind = "list"
            /\ file'.val \in Suffixes(file.val \o <<JsonRecord(entry[1])>>)]_vars

\* an append to a full history dropped the oldest record and kept the rest
C2_Witness ==
    /\ pc[1] = "html"
    /\ base[1] = FileOf("list", SeedHistory(HistoryLimit))
    /\ file.val = SubSeq(SeedHistory(HistoryLimit), 2, HistoryLimit)
                    \o <<JsonRecord(entry[1])>>

\* C3: a missing, unreadable or invalid history file is treated as an empty
\* history: saveToHistory raises nothing before its write and computes (and,
\* if the write succeeds, persists) a history of exactly the new record.
C3_CorruptTreatedAsEmpty ==
    (seen[1] \in CorruptKinds /\ pc[1] \in {"write", "html", "junit", "json", "done"})
      => /\ raised[1] => writeOutcome[1] = "failed"
         /\ hist[1] = [t |-> "list", val |-> <<entry[1]>>]
         /\ (pc[1] = "html" => file = Stringify(<<entry[1]>>))

\* C4: when the write of the history file fails, generateReport raises
\* nothing and the HTML, JUnit and JSON reports are written.
C4_WriteFailureNotFatal ==
    (pc[1] = "done" /\ writeOutcome[1] = "failed")
      => /\ ~raised[1]
         /\ {"report.html", "junit-report.xml", "report.json"}
              \subseteq {reports[1][i] : i \in 1..Len(reports[1])}

\* C5: no two records of the persisted history have the same id.
C5_UniqueIds ==
    file.kind = "list"
      => \A i, j \in 1..Len(file.val) :
           i # j => file.val[i].id # file.val[j].id

\* C6: when both processes read the history before either wrote it, the
\* history persisted after both writes is the one the last writer computed
\* from what it read: it ends with the last writer's record, and the first
\* writer's record is not in it (unless a record of the same value was read
\* or is the last writer's own).
C6_LastWriterWins ==
    (racing /\ Len(order) = 2)
      => LET w == order[2]
             o == order[1]
             read == IF base[w].kind = "list" THEN base[w].val ELSE <<>>
             computed == Trim(read \o <<entry[w]>>)
         IN /\ base[w].kind # "nonlist"
            /\ hist[w].val = computed
            /\ file.kind = "list"
            /\ Len(file.val) = Min(Len(read) + 1, HistoryLimit)
            /\ file.val = [i \in 1..Len(computed) |-> JsonRecord(computed[i])]
            /\ file.val[Len(file.val)] = JsonRecord(entry[w])
            /\ \A i \in 1..Len(file.val) :
                 file.val[i] = JsonRecord(entry[o])
                   => \/ JsonRecord(entry[o]) = JsonRecord(entry[w])
                      \/ \E j \in 1..Len(base[w].val) :
                           base[w].val[j] = JsonRecord(entry[o])

\* both processes read a two-record history, both wrote, and the first
\* writer's record (distinct from the last writer's) is lost
C6_Witness ==
    /\ racing /\ Len(order) = 2 /\ order[1] # order[2]
    /\ base[1] = base[2] /\ base[1] = FileOf("list", SeedHistory(1))
    /\ entry[order[1]] # entry[order[2]]
    /\ Len(file.val) = 2
\* the report of process 1 has been rendered
Rendered == pc[1] \in {"junit", "json", "done"} /\ writeOutcome[1] = "ok"

\* C7: the severity is CRITICAL exactly when p95 or the error rate exceeds its
\* critical bound, otherwise WARNING exactly when one exceeds its warning
\* bound, otherwise HEALTHY, whatever the order of the two tiers' bounds.
C7_SeverityTiering ==
    (Rendered /\ meta[1].hasK6Metrics)
      => LET km == meta[1].k6Metrics
             table == IF meta[1].hasAlerts THEN meta[1].alerts ELSE DefaultAlerts
             Exceeds(x, bound) == x.t = "num" /\ x.v > bound.v
             critical == \/ Exceeds(km.p95ResponseTime, table.critical.p95_response_time_ms)
                         \/ Exceeds(km.errorRate, table.critical.max_error_rate_percent)
             warning == \/ Exceeds(km.p95ResponseTime, table.warning.p95_response_time_ms)
                        \/ Exceeds(km.errorRate, table.warning.max_error_rate_percent)
         IN /\ severity[1] = "CRITICAL" <=> critical
            /\ severity[1] = "WARNING" <=> (~critical /\ warning)
            /\ severity[1] = "HEALTHY" <=> (~critical /\ ~warning)

\* p95 exceeds both tiers of a table whose warning bound is above its critical
\* bound, and the report says CRITICAL
C7_Witness ==
    /\ Rendered /\ meta[1].hasK6Metrics /\ meta[1].hasAlerts
    /\ meta[1].alerts.warning.p95_response_time_ms.v
         > meta[1].alerts.critical.p95_response_time_ms.v
    /\ meta[1].k6Metrics.p95ResponseTime.t = "num"
    /\ meta[1].k6Metrics.p95ResponseTime.v
         > meta[1].alerts.warning.p95_response_time_ms.v
    /\ severity[1] = "CRITICAL"

\* the two records the comparison is about, and the rows it must hold
Current == hist[1].val[Len(hist[1].val)]
Previous == hist[1].val[Len(hist[1].val) - 1]
HasNumber(record, key) ==
    \E i \in 1..Len(record.metrics) :
        record.metrics[i].metric = key /\ record.metrics[i].actual.t = "str"
NumberOf(record, key) ==
    LET i == CHOOSE i \in 1..Len(record.metrics) : record.metrics[i].metric = key
    IN record.metrics[i].actual.v * 10
Compared(key) ==
    HasNumber(Current, key) /\ HasNumber(Previous, key) /\ NumberOf(Previous, key) # 0
RowsOf(key) ==
    {i \in 1..Len(comparisons[1].rows) : comparisons[1].rows[i].metric = key}
Keys == {MetricNames[i] : i \in 1..Len(MetricNames)}
DeltasWhenTwoRecords ==
    /\ comparisons[1].computed <=> Len(hist[1].val) >= 2
    /\ hist[1].val # <<>> /\ Current = entry[1]
    /\ comparisons[1].computed
         => \A key \in Keys :
              /\ Cardinality(RowsOf(key)) = IF Compared(key) THEN 1 ELSE 0
              /\ \A i \in RowsOf(key) :
                   /\ comparisons[1].rows[i].current = NumberOf(Current, key)
                   /\ comparisons[1].rows[i].previous = NumberOf(Previous, key)

\* C8 as stated: deltas exist exactly when the history has two records or
\* more, one per metric that has a number in the last two records and a
\* previous value other than 0, and a delta is (current - previous) /
\* previous * 100.
C8_DeltasExact ==
    Rendered
      => /\ DeltasWhenTwoRecords
         /\ \A i \in 1..Len(comparisons[1].rows) :
              LET row == comparisons[1].rows[i]
              IN row.delta * row.previous = (row.current - row.previous) * 100 * 10

\* C8, amended: as C8, with the delta being (current - previous) / previous *
\* 100 rounded to one decimal place.
C8_DeltasRounded ==
    Rendered
      => /\ DeltasWhenTwoRecords
         /\ \A i \in 1..Len(comparisons[1].rows) :
              LET row == comparisons[1].rows[i]
                  off == row.delta * row.previous
                           - (row.current - row.previous) * 100 * 10
              IN 2 * Abs(off) <= Abs(row.previous)

\* a comparison over three or more records with a delta that is not a whole
\* number of tenths and a metric left out because its previous value is 0
C8_Witness ==
    /\ Rendered /\ comparisons[1].computed /\ Len(hist[1].val) >= 3
    /\ hist[1].val[1] # Previous
    /\ HasNumber(Current, MetricNames[5]) /\ HasNumber(Previous, MetricNames[5])
    /\ RowsOf(MetricNames[5]) = {}
    /\ \E i \in 1..Len(comparisons[1].rows) :
         LET row == comparisons[1].rows[i]
         IN row.delta * row.previous # (row.current - row.previous) * 100 * 10

\* C9: a compared metric other than throughput is improved exactly when its
\* current value is below the previous one and a regression when it is above;
\* throughput alone is improved exactly when its current value is above.
C9_DeltaPolarity ==
    Rendered
      => \A i \in 1..Len(comparisons[1].rows) :
           LET row == comparisons[1].rows[i]
           IN IF row.metric = "Throughput (req/s)"
              THEN row.isImproved <=> row.current > row.previous
              ELSE /\ row.isImproved <=> row.current < row.previous
                   /\ row.current > row.previous => ~row.isImproved

\* throughput rose and is improved, p95 rose and is a regression
C9_Witness ==
    /\ Rendered
    /\ \E i, j \in 1..Len(comparisons[1].rows) :
         LET thr == comparisons[1].rows[i]
             p95 == comparisons[1].rows[j]
         IN /\ thr.metric = "Throughput (req/s)" /\ thr.current > thr.previous
            /\ thr.isImproved
            /\ p95.metric = "P95 Response Time (ms)" /\ p95.current > p95.previous
            /\ ~p95.isImproved

\* C10: when the resolved thresholds lack the p95 bound or the error-rate
\* bound, validateAgainstSLA validates no metric: it returns no
\* ValidationResult, and so none with passed = false.
C10_MandatoryThresholds ==
    LET profileSla == IF runProfile = "smoke" THEN slaConfig.profiles["smoke"]
                      ELSE NoOverrides
        Resolved(k) == IF profileSla[k].t = "undef" THEN slaConfig.performance[k]
                       ELSE profileSla[k]
    IN (vpc = "done" /\ \/ Resolved("p95_response_time_ms").t = "undef"
                        \/ Resolved("max_error_rate_percent").t = "undef")
         => validationResults = <<>>

\* a call of validateAgainstSLA has returned
Returned == vpc \in {"done", "redone"}
\* the active profile is configured and sets threshold key k
Overrides(k) ==
    IF runProfile \in DOMAIN slaConfig.profiles
    THEN slaConfig.profiles[runProfile][k].t # "undef"
    ELSE FALSE
\* the result for the metric called MetricNames[i], <<>> when there is none
ResultsFor(i) ==
    SelectSeq(validationResults, LAMBDA r : r.metric = MetricNames[i])

ValueOf(i) ==
    <<k6Metrics.p50ResponseTime, k6Metrics.p90ResponseTime,
      k6Metrics.p95ResponseTime, k6Metrics.p99ResponseTime,
      k6Metrics.errorRate, k6Metrics.throughput>>[i]
\* the number the `actual` text of a result reads as
ShownValue(r) ==
    IF r.actual.t = "str" THEN [t |-> "num", v |-> r.actual.v * 10]
    ELSE [t |-> "nan", v |-> 0]
NumLe(a, b) == a.t = "num" /\ b.t = "num" /\ a.v <= b.v

PlaceOf(name) == CHOOSE i \in 1..Len(MetricNames) : MetricNames[i] = name

\* C13: the list validateAgainstSLA returns is a subsequence of [P50, P90,
\* P95, P99, Error Rate, Throughput, CPU Usage, Memory Usage] in that order
\* with each metric at most once, and P50, P90, P95, P99 and Error Rate
\* always appear.
C13_ResultOrder ==
    Returned =>
      /\ \A j \in 1..Len(validationResults) :
            \E i \in 1..Len(MetricNames) : validationResults[j].metric = MetricNames[i]
      /\ \A j \in 1..Len(validationResults) : \A k \in 1..Len(validationResults) :
            j < k => PlaceOf(validationResults[j].metric)
                       < PlaceOf(validationResults[k].metric)
      /\ \A i \in 1..5 : Len(ResultsFor(i)) = 1

\* all eight metrics are reported
C13_Witness ==
    /\ Returned
    /\ Len(validationResults) = Len(MetricNames)
    /\ ResultsFor(6) # <<>> /\ ResultsFor(7) # <<>> /\ ResultsFor(8) # <<>>

\* the threshold for key k after the profile's overrides are laid over the
\* global values
Effective(k) ==
    IF Overrides(k) THEN slaConfig.profiles[runProfile][k]
    ELSE slaConfig.performance[k]

\* C14: a Throughput result is in the output exactly when the effective
\* thresholds hold a minimum-throughput bound, for every numeric value of that
\* bound; with no bound there is no Throughput result.
C14_ThroughputWhenConfigured ==
    Returned =>
      /\ Effective("min_throughput_rps").t = "num" <=> ResultsFor(6) # <<>>
      /\ Effective("min_throughput_rps").t = "undef" => ResultsFor(6) = <<>>

\* C15: a CPU (Memory) result is emitted only when the infrastructure
\* snapshot holds a measured number for the average CPU (memory) usage; when
\* the value is the unavailable sentinel or the field is absent no result is
\* emitted for it.
C15_InfraSuppressedWhenUnmeasured ==
    Returned =>
      /\ ResultsFor(7) # <<>> => infraMetrics.avgCpuUsage.t = "str"
      /\ ResultsFor(8) # <<>> => infraMetrics.avgMemoryUsage.t = "str"

\* C16: the bound used for P50, P90 and P99 is the effective configured value
\* whenever the profile or the global configuration supplies a number, and
\* 200, 400 and 1000 when neither supplies one.
C16_PercentileDefaults ==
    LET Used(i, k, d) ==
          /\ Len(ResultsFor(i)) = 1
          /\ ResultsFor(i)[1].threshold.bound =
                IF Effective(k).t = "num" THEN Effective(k)
                ELSE [t |-> "num", v |-> d * Unit]
    IN Returned =>
         /\ Used(1, "p50_response_time_ms", DefaultP50)
         /\ Used(2, "p90_response_time_ms", DefaultP90)
         /\ Used(4, "p99_response_time_ms", DefaultP99)

Extracted == xpc = "returned"
Payload == summary.metrics.v
\* 100 times a number; NaN for 100 times undefined
Hundredfold(x) ==
    IF x.t = "num" THEN [t |-> "num", v |-> 100 * x.v] ELSE [t |-> "nan", v |-> 0]
HasValue(metric) == metric.t = "obj" /\ metric.v.value.t = "num"

C19_ExtractionTotal == xpc # "raised"

\* the payload supplies a number for property k of a metric
Supplied(metric, k) == metric.t = "obj" /\ metric.v[k].t = "num"
Zero == [t |-> "num", v |-> 0]
SourceOrZero(metric, k) == IF Supplied(metric, k) THEN metric.v[k] ELSE Zero
\* the fields that are read from one property and default to 0
PlainFields ==
    metrics.p90ResponseTime = SourceOrZero(Payload.http_req_duration, "p90")
    /\ metrics.p95ResponseTime = SourceOrZero(Payload.http_req_duration, "p95")
    /\ metrics.p99ResponseTime = SourceOrZero(Payload.http_req_duration, "p99")
    /\ metrics.avgResponseTime = SourceOrZero(Payload.http_req_duration, "avg")
    /\ metrics.minResponseTime = SourceOrZero(Payload.http_req_duration, "min")
    /\ metrics.maxResponseTime = SourceOrZero(Payload.http_req_duration, "max")
    /\ metrics.throughput = SourceOrZero(Payload.http_reqs, "rate")
    /\ metrics.totalRequests = SourceOrZero(Payload.http_reqs, "count")
    /\ metrics.iterations = SourceOrZero(Payload.iterations, "count")

C21_P50FirstMatchWins ==
    Extracted =>
      LET duration == Payload.http_req_duration
      IN metrics.p50ResponseTime =
           IF duration.t # "obj" THEN Zero
           ELSE IF duration.v.med.t # "undef" THEN duration.v.med
           ELSE IF duration.v.p50.t # "undef" THEN duration.v.p50
           ELSE Zero

\* the checks of the payload in the order the payload holds them: the
\* elements of a list, the members of a keyed object
ChecksInOrder ==
    LET root == summary.root_group
    IN IF root.t # "obj" THEN <<>>
       ELSE IF root.v.checks.t = "array" THEN root.v.checks.v
       ELSE IF root.v.checks.t = "map"
            THEN [i \in 1..Len(root.v.checks.v) |-> root.v.checks.v[i].value]
            ELSE <<>>

\* C22: the list and the keyed object that hold the same checks in the same
\* order give the same checksData: one {name, passes, fails} entry per check
\* in the order the payload holds them, and no entry without a checks
\* container.
C22_ChecksNormalized ==
    Extracted =>
      /\ Len(metrics.checksData) = Len(ChecksInOrder)
      /\ \A i \in 1..Len(ChecksInOrder) :
            /\ metrics.checksData[i].passes = ChecksInOrder[i].passes
            /\ metrics.checksData[i].fails = ChecksInOrder[i].fails
            /\ metrics.checksData[i].name =
                  IF ChecksInOrder[i].name \in {"<undefined>", ""}
                  THEN "Unknown Check" ELSE ChecksInOrder[i].name

\* C23: every generateReport call performs exactly four file writes, to
\* history.json, report.html, junit-report.xml and report.json, the history
\* first; from a history of n < 50 records the persisted history afterwards
\* has n + 1 records and its last record carries the run's profile.
C23_FourWrites ==
    pc[1] = "done" =>
      /\ reports[1] = <<"history.json", "report.html", "junit-report.xml",
                        "report.json">>
      /\ (base[1].kind = "list" /\ Len(base[1].val) < HistoryLimit)
           => /\ file.kind = "list"
              /\ Len(file.val) = Len(base[1].val) + 1
              /\ file.val[Len(file.val)].profile =
                    IF meta[1].profile \in {"<undefined>", ""} THEN "default"
                    ELSE meta[1].profile

\* C29: whatever the requests come to, queryPrometheusRange issues at most
\* maxRetries requests, issues none after a successful response and returns
\* that response's data; every sleep follows a failed attempt, lasts
\* RETRY_DELAY * attempt and is followed by another attempt; and when no
\* attempt succeeds it returns {success: false, data: []}.
C29_RetryBounded ==
    LET n == Len(outcomes)
    IN /\ n <= maxRetries
       /\ \A i \in 1..(n - 1) : outcomes[i].kind # "success"
       /\ \A j \in 1..Len(sleeps) :
            /\ sleeps[j].attempt \in 1..n
            /\ outcomes[sleeps[j].attempt].kind # "success"
            /\ sleeps[j].ms = RetryDelay * sleeps[j].attempt
            /\ sleeps[j].attempt < maxRetries
            /\ qpc = "returned" => sleeps[j].attempt < n
       /\ qpc = "returned" =>
            IF n > 0 /\ outcomes[n].kind = "success"
            THEN queryResult = [success |-> TRUE, data |-> outcomes[n].data]
            ELSE n = maxRetries
                 /\ queryResult = [success |-> FALSE, data |-> "no series"]

\* a thrown error, a sleep, a response without success and then a successful
\* response whose data is returned
C29_Witness ==
    /\ qpc = "returned" /\ queryResult.success
    /\ queryResult.data = "one series"
    /\ Len(outcomes) = 3 /\ maxRetries > 3
    /\ outcomes[1].kind = "thrown" /\ outcomes[2].kind = "nonsuccess"
    /\ sleeps = <<[attempt |-> 1, ms |-> RetryDelay]>>

\* the stages after the k6 run have left no trace: nothing extracted, nothing
\* validated, no report call, no file written, no notification
NothingDone ==
    /\ xpc = "idle" /\ metrics = NoMetricSet
    /\ vpc = "idle" /\ validationResults = <<>>
    /\ pc[1] = "idle" /\ reports[1] = <<>> /\ writeOutcome[1] = "none"
    /\ notified = "none"

\* C24 as stated: in a dry run, with or without --skip-k6, k6 is never
\* started, nothing is extracted, validated, written or notified, and the
\* process ends with exit code 0
C24_DryRunExitsZero ==
    options.dryRun
      => /\ ~k6Started /\ events = {} /\ delivered = <<>>
         /\ NothingDone
         /\ opc = "exited" => exit.code = 0

\* C24, amended: in a dry run k6 is never started and nothing is extracted,
\* validated, written or notified; the process ends with exit code 0 when
\* the k6 binary is found and with exit code 1, before the dry run is
\* looked at, when it is not
C24_DryRunNoEffects ==
    options.dryRun
      => /\ ~k6Started /\ events = {} /\ delivered = <<>>
         /\ NothingDone
         /\ opc = "exited"
              => /\ exit.code = IF env.k6Installed THEN 0 ELSE 1
                 /\ exit.path = IF env.k6Installed THEN "dryrun" ELSE "prerequisites"

C24_Witness ==
    /\ options.dryRun /\ options.skipK6
    /\ summaryFile.kind = "missing"
    /\ k6Ran = "true"
    /\ opc = "exited" /\ exit.code = 0

\* the events of the child process, delivered or still to come
ChildEmits(e) == e \in events \/ \E i \in 1..Len(delivered) : delivered[i] = e
SpawnError == ChildEmits([type |-> "error", code |-> 0])
ClosedWell ==
    /\ delivered # <<>>
    /\ delivered[1].type = "close"
    /\ delivered[1].code \in {0, 99}

\* C30: outside dry-run mode the result of runK6LoadTest is settled by the
\* first event of the child process and never changes afterwards, whatever
\* the order of 'close' and 'error'; it is true only if the summary file
\* exists and (skip-k6 is set or the process closed with code 0 or 99); a
\* spawn error or any other exit code gives false, and after false nothing
\* is extracted, validated or written and the exit code is 1
C30_K6RunOutcome ==
    /\ [][k6Ran # "pending" => k6Ran' = k6Ran]_vars
    /\ [](~options.dryRun
            => /\ delivered # <<>> => k6Ran # "pending"
               /\ opc \in {"k6done", "extract", "validate", "finalize"}
                    => k6Ran # "pending"
               /\ k6Ran = "true"
                    => /\ summaryFile.kind # "missing"
                       /\ IF options.skipK6 THEN ~k6Started ELSE ClosedWell
               /\ (k6Ran # "pending" /\ k6Started /\ (SpawnError \/ ~ClosedWell))
                    => k6Ran = "false"
               /\ k6Ran = "false"
                    => /\ NothingDone
                       /\ summary = Summary(Undef, Undef)
                       /\ opc = "exited"
                            => exit.code = 1 /\ exit.path = "k6 failed")

C30_Witness ==
    /\ ~options.dryRun /\ ~options.skipK6
    /\ summaryFile.kind = "json"
    /\ Len(delivered) = 2
    /\ delivered[1].type = "close" /\ delivered[2].type = "error"
    /\ k6Ran = "false"
    /\ opc = "exited" /\ exit.code = 1

\* the number this run's validation gave for a metric, as parseFloat reads it
ThisRun(key) ==
    {ParseFloat(validationResults[j].actual).v :
        j \in {j \in 1..Len(validationResults) : validationResults[j].metric = key}}

\* C25: within a run validation starts only after extraction has returned,
\* on the extracted metrics; the report call starts only after validation is
\* done, on its results; the history append is the first write; and when the
\* deltas and the severity are computed the run's record has been appended
\* and written, so the "current" side of every delta is this run's value
C25_PipelineOrder ==
    /\ vpc # "idle" => xpc = "returned" /\ k6Metrics = metrics
    /\ pc[1] # "idle"
         => /\ vpc = "done"
            /\ results[1] = validationResults
            /\ meta[1] = ReportMetadata
    /\ reports[1] # <<>>
         => /\ reports[1][1] = "history.json"
            /\ writeOutcome[1] = "ok"
            /\ file = Stringify(hist[1].val)
    /\ Rendered
         => /\ reports[1] # <<>>
            /\ hist[1].val[Len(hist[1].val)] = entry[1]
            /\ entry[1].metrics = MetricsOf(validationResults)
            /\ entry[1].profile = runProfile
            /\ severity[1] = SeverityLevel(Km(metrics.p95ResponseTime, metrics.errorRate),
                                           IF env.alerts.has THEN env.alerts.table
                                           ELSE DefaultAlerts)
            /\ comparisons[1].computed <=> Len(hist[1].val) >= 2
            /\ \A i \in 1..Len(comparisons[1].rows) :
                  comparisons[1].rows[i].current
                      \in ThisRun(comparisons[1].rows[i].metric)

C25_Witness ==
    /\ opc = "exited" /\ exit.path = "sla violation"
    /\ pc[1] = "done" /\ ~raised[1]
    /\ Len(hist[1].val) = HistoryLimit
    /\ \E i \in 1..Len(comparisons[1].rows) :
          comparisons[1].rows[i].current # comparisons[1].rows[i].previous

\* C26 as stated: the exit code of a run that completed every stage with a
\* failed SLA check differs from the exit code of every pipeline failure
\* (k6 failed, no summary file, an uncaught error)
C26_SlaNotConflated ==
    exit.path = "sla violation"
      => \A failure \in {"k6 failed", "no summary", "uncaught"} :
            exit.code # ExitCodeOf(failure)

\* C27 as stated: whenever a run has both rendered its report and sent its
\* notification, the notifier's severity is critical exactly when the
\* report's severity assessment is CRITICAL
C27_SeverityAgreement ==
    (notified # "none" /\ pc[1] = "done" /\ ~raised[1])
      => (notified = "critical" <=> severity[1] = "CRITICAL")

\* C28 as stated: when the process has exited, no dashboard annotation
\* created at the start of the run is still open
C28_AnnotationClosed == opc = "exited" => annotation # "open"

====
